---- MODULE Spec2Model ----
(***************************************************************************)
(* The two-chip example circuit (examples/two-chip.rs): a FieldChip built  *)
(* from an AddChip and a MulChip computes d = (a + b) * c and exposes d as *)
(* a public input.  The model follows one MockProver::run: the circuit is  *)
(* synthesized region by region into a grid of 2^k rows, then verify()     *)
(* evaluates every gate at every row and every copy constraint.            *)
(*                                                                         *)
(* The example's own code (gates, regions, synthesize, main) is modelled   *)
(* from the source.  The layouter, the assignment backend and the mock     *)
(* verification engine are library code; they are modelled from the        *)
(* design document (sections 3, 4.3, 4.4, 4.5, 7, 9).                      *)
(***************************************************************************)
EXTENDS Integers, Sequences, FiniteSets, TLC

(* ------------------------------ bounds --------------------------------- *)

\* The field Fp is modelled by the integers modulo FieldOrder.
FieldOrder == 2

\* The grid size k ranges over 0 .. K + ExtraK.
ExtraK == 1

\* How many cells of a finished assignment a test may corrupt.
MaxCorrupt == 1

(* ------------------------- program constants --------------------------- *)

\* let k = 3;
K == 3

\* public_inputs[7] = d;
PubRow == 7

\* Option<F>: None (a witness that is absent).
None == -1

\* A cell no region has written.
Unassigned == -2

\* Rotation::cur() and Rotation::next()
RotationCur == 0

RotationNext == 1

(* ------------------------------- state --------------------------------- *)

VARIABLES
    k,          \* grid size: the grid has 2^k rows
    a, b, c,    \* MyCircuit's private inputs (Option<F>)
    instance,   \* the public-input vector of the one instance column
    pc,         \* how many regions synthesize has completed
    cursor,     \* the layouter's next free row
    advice,     \* advice[column][row]: Unassigned, None, or a field element
    selectors,  \* selectors[s][row] \in {0, 1}
    edges,      \* the copy constraints recorded by constrain_equal, in order
    writes,     \* every write a region made: [region, kind, column, row]
    incomplete, \* assignment attempts whose value_fn had no value
    num,        \* the Numbers returned by the instructions
    status,     \* "running", "error", "incomplete" or "verified"
    result,     \* "none", "Ok" or "Err"
    failures,   \* the failure list of verify()
    corrupt     \* the cells a test corrupted after synthesis

vars == <<k, a, b, c, instance, pc, cursor, advice, selectors, edges, writes,
          incomplete, num, status, result, failures, corrupt>>

(* ------------------------------ the field ------------------------------ *)

F == 0 .. (FieldOrder - 1)

OptF == F \cup {None}

FAdd(x, y) == (x + y) % FieldOrder

FMul(x, y) == (x * y) % FieldOrder

\* -F::one()
FNegOne == (FieldOrder - 1) % FieldOrder

\* a.value.and_then(|a| b.value.map(|b| a + b))
OptAdd(x, y) == IF x = None \/ y = None THEN None ELSE FAdd(x, y)

\* Mutant of OptMul: the mul region computes its output with + instead of *.
OptMul_Sum(x, y) == IF x = None \/ y = None THEN None ELSE FAdd(x, y)

\* a.value.and_then(|a| b.value.map(|b| a * b))
OptMul(x, y) == IF x = None \/ y = None THEN None ELSE FMul(x, y)

\* value.ok_or(Error::SynthesisError): None stands for the Err outcome.
value_fn(value) == value

(* ------------------------------ the grid ------------------------------- *)

N == 2 ^ k

Rows == 0 .. (N - 1)

AdviceColumns == {0, 1}

SelectorNames == {"s_pub", "s_add", "s_mul"}

Cell(column, row) == [column |-> column, row |-> row]

NoCell == Cell(0 - 1, 0 - 1)

\* A cell or query result that holds no field element.
Undefined(x) == x < 0

CellValue(cell) ==
    IF cell.column \in AdviceColumns /\ cell.row \in Rows
    THEN advice[cell.column][cell.row]
    ELSE Unassigned

(* --------------------- gate expressions and queries -------------------- *)

\* Expression addition and multiplication; an undefined operand makes the
\* value undefined.
EAdd(x, y) == IF Undefined(x) \/ Undefined(y) THEN Unassigned ELSE FAdd(x, y)

EMul(x, y) == IF Undefined(x) \/ Undefined(y) THEN Unassigned ELSE FMul(x, y)

query_advice(column, rotation, row) == CellValue(Cell(column, row + rotation))

query_instance(rotation, row) ==
    IF (row + rotation) \in Rows THEN instance[row + rotation] ELSE Unassigned

query_selector(s, rotation, row) ==
    IF (row + rotation) \in Rows THEN selectors[s][row + rotation] ELSE 0

\* Mutant of PublicInputGate: the gate queries advice[0] instead of advice[1].
PublicInputGate_Advice0(row) ==
    LET av == query_advice(0, RotationCur, row)
        p == query_instance(RotationCur, row)
        s == query_selector("s_pub", RotationCur, row)
    IN  <<EMul(s, EAdd(p, EMul(av, FNegOne)))>>

\* meta.create_gate("public input", ...): vec![s * (p + a * -F::one())]
PublicInputGate(row) ==
    LET av == query_advice(1, RotationCur, row)
        p == query_instance(RotationCur, row)
        s == query_selector("s_pub", RotationCur, row)
    IN  <<EMul(s, EAdd(p, EMul(av, FNegOne)))>>

\* Mutant of AddGate: `out` is queried two rows below the selector's row.
AddGate_OutRot2(row) ==
    LET lhs == query_advice(0, RotationCur, row)
        rhs == query_advice(1, RotationCur, row)
        out == query_advice(0, 2, row)
        s_add == query_selector("s_add", RotationCur, row)
    IN  <<EMul(s_add, EAdd(EAdd(lhs, rhs), EMul(out, FNegOne)))>>

\* Mutant of AddGate: `out` is queried at Rotation::cur().
AddGate_OutCur(row) ==
    LET lhs == query_advice(0, RotationCur, row)
        rhs == query_advice(1, RotationCur, row)
        out == query_advice(0, RotationCur, row)
        s_add == query_selector("s_add", RotationCur, row)
    IN  <<EMul(s_add, EAdd(EAdd(lhs, rhs), EMul(out, FNegOne)))>>

\* meta.create_gate("add", ...): vec![s_add * (lhs + rhs + out * -F::one())]
AddGate(row) ==
    LET lhs == query_advice(0, RotationCur, row)
        rhs == query_advice(1, RotationCur, row)
        out == query_advice(0, RotationNext, row)
        s_add == query_selector("s_add", RotationCur, row)
    IN  <<EMul(s_add, EAdd(EAdd(lhs, rhs), EMul(out, FNegOne)))>>

\* Mutant of MulGate: `lhs` is queried at Rotation::prev(), the last row of
\* the region above.
MulGate_LhsPrev(row) ==
    LET lhs == query_advice(0, 0 - 1, row)
        rhs == query_advice(1, RotationCur, row)
        out == query_advice(0, RotationNext, row)
        s_mul == query_selector("s_mul", RotationCur, row)
    IN  <<EMul(s_mul, EAdd(EMul(lhs, rhs), EMul(out, FNegOne)))>>

\* meta.create_gate("mul", ...): vec![s_mul * (lhs * rhs + out * -F::one())]
MulGate(row) ==
    LET lhs == query_advice(0, RotationCur, row)
        rhs == query_advice(1, RotationCur, row)
        out == query_advice(0, RotationNext, row)
        s_mul == query_selector("s_mul", RotationCur, row)
    IN  <<EMul(s_mul, EAdd(EMul(lhs, rhs), EMul(out, FNegOne)))>>

\* The gates in the order FieldChip::configure creates them (gate_index).
GateNames == <<"public input", "add", "mul">>

GateIndices == 0 .. (Len(GateNames) - 1)

GateExprs(g, row) ==
    CASE g = 0 -> PublicInputGate(row)
      [] g = 1 -> AddGate(row)
      [] g = 2 -> MulGate(row)

\* Mutant of GateSelector: the add gate queries s_mul and the mul gate s_add.
GateSelector_Swapped(g) ==
    CASE g = 0 -> "s_pub"
      [] g = 1 -> "s_mul"
      [] g = 2 -> "s_add"

\* The selector each gate queries (at Rotation::cur()).
GateSelector(g) ==
    CASE g = 0 -> "s_pub"
      [] g = 1 -> "s_add"
      [] g = 2 -> "s_mul"

\* The cells a gate's queries read when it is evaluated at `row`.
GateCells(g, row) ==
    CASE g = 0 -> {Cell(1, row + RotationCur)}
      [] g = 1 -> {Cell(0, row + RotationCur), Cell(1, row + RotationCur),
                   Cell(0, row + RotationNext)}
      [] g = 2 -> {Cell(0, row + RotationCur), Cell(1, row + RotationCur),
                   Cell(0, row + RotationNext)}

(* ------------------------ regions and the layouter --------------------- *)

\* The working state of one assign_region call.  The region starts at the
\* layouter's cursor; offsets inside it are relative to that row.
BeginRegion ==
    [advice |-> advice, selectors |-> selectors, edges |-> edges,
     writes |-> writes, incomplete |-> incomplete, rows |-> 0, err |-> "ok"]

Max(x, y) == IF x >= y THEN x ELSE y

\* selector.enable(&mut region, offset)?  An error already raised in the
\* closure (the ? operator) skips the call.
enable(R, region, s, offset) ==
    LET row == cursor + offset IN
    IF R.err # "ok" THEN R
    ELSE IF row >= N THEN [R EXCEPT !.err = "BoundsFailure"]
    ELSE IF R.selectors[s][row] = 1 THEN [R EXCEPT !.err = "DuplicateEnable"]
    ELSE [R EXCEPT !.selectors[s][row] = 1,
                   !.writes = @ \cup {[region |-> region, kind |-> s,
                                       column |-> 0, row |-> row]},
                   !.rows = Max(@, offset + 1)]

\* region.assign_advice(|| name, column, offset, value_fn)?  The value that
\* value_fn yields is written into the cell; a value_fn without a value is
\* recorded as an incomplete assignment of that cell and is no error.
assign_advice(R, region, name, column, offset, value) ==
    LET row == cursor + offset IN
    IF R.err # "ok" THEN R
    ELSE IF row >= N THEN [R EXCEPT !.err = "BoundsFailure"]
    ELSE [R EXCEPT !.advice[column][row] = value_fn(value),
                   !.writes = @ \cup {[region |-> region, kind |-> "advice",
                                       column |-> column, row |-> row]},
                   !.incomplete =
                       IF value_fn(value) = None
                       THEN @ \cup {[region |-> region, name |-> name,
                                     cell |-> Cell(column, row)]}
                       ELSE @,
                   !.rows = Max(@, offset + 1)]

\* region.constrain_equal(&config.perm, left, right)?
constrain_equal(R, left, right) ==
    IF R.err # "ok" THEN R
    ELSE [R EXCEPT !.edges = Append(@, [a |-> left, b |-> right])]

\* The end of assign_region(...)?: the region's writes are committed and the
\* cursor moves past its rows, or the error aborts the run.
Commit(R) ==
    IF R.err # "ok"
    THEN /\ status' = "error"
         /\ UNCHANGED <<advice, selectors, edges, writes, incomplete, cursor, pc>>
    ELSE /\ advice' = R.advice
         /\ selectors' = R.selectors
         /\ edges' = R.edges
         /\ writes' = R.writes
         /\ incomplete' = R.incomplete
         /\ cursor' = cursor + R.rows
         /\ pc' = pc + 1
         /\ status' = status

\* Ok(num.unwrap()): the instruction's result reaches the caller only when
\* assign_region returned Ok.
Return(R, slot, number) ==
    num' = IF R.err = "ok" THEN [num EXCEPT ![slot] = number] ELSE num

(* ---------------------------- the instructions ------------------------- *)

\* Mutant of load_private: the value is unwrapped with ? before the region
\* is assigned, so an absent input aborts synthesize.
load_private_Eager(slot, value) ==
    IF value_fn(value) = None
    THEN /\ status' = "error"
         /\ UNCHANGED <<advice, selectors, edges, writes, incomplete, cursor,
                        pc, num>>
    ELSE LET region == pc + 1
             R0 == BeginRegion
             R1 == assign_advice(R0, region, "private input", 0, 0, value)
         IN  /\ Commit(R1)
             /\ Return(R1, slot, [cell |-> Cell(0, cursor), value |-> value])

\* FieldChip::load_private
load_private(slot, value) ==
    LET region == pc + 1
        R0 == BeginRegion
        R1 == assign_advice(R0, region, "private input", 0, 0, value)
    IN  /\ Commit(R1)
        /\ Return(R1, slot, [cell |-> Cell(0, cursor), value |-> value])

\* Mutant of add: the output is assigned at region offset 2.
add_OutOffset2(slot, x, y) ==
    LET region == pc + 1
        R0 == BeginRegion
        R1 == enable(R0, region, "s_add", 0)
        R2 == assign_advice(R1, region, "lhs", 0, 0, x.value)
        R3 == assign_advice(R2, region, "rhs", 1, 0, y.value)
        R4 == constrain_equal(R3, x.cell, Cell(0, cursor))
        R5 == constrain_equal(R4, y.cell, Cell(1, cursor))
        value == OptAdd(x.value, y.value)
        R6 == assign_advice(R5, region, "lhs * rhs", 0, 2, value)
    IN  /\ Commit(R6)
        /\ Return(R6, slot, [cell |-> Cell(0, cursor + 2), value |-> value])

\* AddChip::add
add(slot, x, y) ==
    LET region == pc + 1
        R0 == BeginRegion
        R1 == enable(R0, region, "s_add", 0)
        R2 == assign_advice(R1, region, "lhs", 0, 0, x.value)
        R3 == assign_advice(R2, region, "rhs", 1, 0, y.value)
        R4 == constrain_equal(R3, x.cell, Cell(0, cursor))
        R5 == constrain_equal(R4, y.cell, Cell(1, cursor))
        value == OptAdd(x.value, y.value)
        R6 == assign_advice(R5, region, "lhs * rhs", 0, 1, value)
    IN  /\ Commit(R6)
        /\ Return(R6, slot, [cell |-> Cell(0, cursor + 1), value |-> value])

\* Mutant of mul: the output is assigned at region offset 2.
mul_OutOffset2(slot, x, y) ==
    LET region == pc + 1
        R0 == BeginRegion
        R1 == enable(R0, region, "s_mul", 0)
        R2 == assign_advice(R1, region, "lhs", 0, 0, x.value)
        R3 == assign_advice(R2, region, "rhs", 1, 0, y.value)
        R4 == constrain_equal(R3, x.cell, Cell(0, cursor))
        R5 == constrain_equal(R4, y.cell, Cell(1, cursor))
        value == OptMul(x.value, y.value)
        R6 == assign_advice(R5, region, "lhs * rhs", 0, 2, value)
    IN  /\ Commit(R6)
        /\ Return(R6, slot, [cell |-> Cell(0, cursor + 2), value |-> value])

\* Mutant of mul: the region does not copy-constrain rhs to its input.
mul_NoCopyRhs(slot, x, y) ==
    LET region == pc + 1
        R0 == BeginRegion
        R1 == enable(R0, region, "s_mul", 0)
        R2 == assign_advice(R1, region, "lhs", 0, 0, x.value)
        R3 == assign_advice(R2, region, "rhs", 1, 0, y.value)
        R4 == constrain_equal(R3, x.cell, Cell(0, cursor))
        value == OptMul(x.value, y.value)
        R6 == assign_advice(R4, region, "lhs * rhs", 0, 1, value)
    IN  /\ Commit(R6)
        /\ Return(R6, slot, [cell |-> Cell(0, cursor + 1), value |-> value])

\* MulChip::mul
mul(slot, x, y) ==
    LET region == pc + 1
        R0 == BeginRegion
        R1 == enable(R0, region, "s_mul", 0)
        R2 == assign_advice(R1, region, "lhs", 0, 0, x.value)
        R3 == assign_advice(R2, region, "rhs", 1, 0, y.value)
        R4 == constrain_equal(R3, x.cell, Cell(0, cursor))
        R5 == constrain_equal(R4, y.cell, Cell(1, cursor))
        value == OptMul(x.value, y.value)
        R6 == assign_advice(R5, region, "lhs * rhs", 0, 1, value)
    IN  /\ Commit(R6)
        /\ Return(R6, slot, [cell |-> Cell(0, cursor + 1), value |-> value])

\* Mutant of expose_public: the region does not copy-constrain its cell to
\* the exposed number.
expose_public_NoCopy(x) ==
    LET region == pc + 1
        R0 == BeginRegion
        R1 == enable(R0, region, "s_pub", 0)
        R2 == assign_advice(R1, region, "public advice", 1, 0, x.value)
    IN  /\ Commit(R2)
        /\ UNCHANGED num

\* FieldChip::expose_public
expose_public(x) ==
    LET region == pc + 1
        R0 == BeginRegion
        R1 == enable(R0, region, "s_pub", 0)
        R2 == assign_advice(R1, region, "public advice", 1, 0, x.value)
        R3 == constrain_equal(R2, x.cell, Cell(1, cursor))
    IN  /\ Commit(R3)
        /\ UNCHANGED num

(* ----------------------------- verification --------------------------- *)

\* The gate's selector query is nonzero at `row`.
SelectorActive(g, row) == query_selector(GateSelector(g), RotationCur, row) # 0

\* Constraint `idx` (counted from 0) of gate g is violated at `row`.
ConstraintFails(g, idx, row) ==
    SelectorActive(g, row) /\ GateExprs(g, row)[idx + 1] # 0

\* A copy constraint fails when an endpoint holds no value or the two values
\* differ.
EdgeFails(e) ==
    \/ Undefined(CellValue(e.a))
    \/ Undefined(CellValue(e.b))
    \/ CellValue(e.a) # CellValue(e.b)

\* Every (gate, row) pair, gate by gate and row by row.
Checks ==
    [i \in 1 .. (Len(GateNames) * N) |->
        [gate |-> (i - 1) \div N, idx |-> 0, row |-> (i - 1) % N]]

ConstraintFailures ==
    LET bad == SelectSeq(Checks, LAMBDA ch : ConstraintFails(ch.gate, ch.idx, ch.row))
    IN  [i \in 1 .. Len(bad) |->
            [kind |-> "Constraint",
             gate_index |-> bad[i].gate,
             gate_name |-> GateNames[bad[i].gate + 1],
             constraint_index |-> bad[i].idx,
             constraint_name |-> "",
             row |-> bad[i].row]]

PermutationFailures ==
    LET bad == SelectSeq(edges, EdgeFails)
    IN  [i \in 1 .. Len(bad) |->
            [kind |-> "Permutation", a |-> bad[i].a, b |-> bad[i].b]]

\* A cell that was assigned without a witness.
Absent(cell) == CellValue(cell) = None

\* Verification needs a concrete value of a cell that was assigned without a
\* witness: an active gate queries it, or a copy constraint ends at it.
RequiresAbsent ==
    \/ \E g \in GateIndices, row \in Rows :
          SelectorActive(g, row) /\ \E cell \in GateCells(g, row) : Absent(cell)
    \/ \E i \in 1 .. Len(edges) : Absent(edges[i].a) \/ Absent(edges[i].b)

\* prover.verify()
verify ==
    IF RequiresAbsent
    THEN /\ status' = "incomplete"
         /\ UNCHANGED <<result, failures>>
    ELSE /\ status' = "verified"
         /\ failures' = ConstraintFailures \o PermutationFailures
         /\ result' = IF failures' = <<>> THEN "Ok" ELSE "Err"

(* ------------------------------- actions ------------------------------- *)

NoNumber == [cell |-> NoCell, value |-> None]

Slots == {"a", "b", "c", "ab", "d"}

Grids == 0 .. (K + ExtraK)

\* main: the circuit, the grid size and the public inputs (zero everywhere
\* except row 7); MockProver::run starts with an empty grid.
Init ==
    /\ k \in Grids
    /\ a \in OptF
    /\ b \in OptF
    /\ c \in OptF
    /\ \E pub \in F : instance = [row \in Rows |-> IF row = PubRow THEN pub ELSE 0]
    /\ pc = 0
    /\ cursor = 0
    /\ advice = [column \in AdviceColumns |-> [row \in Rows |-> Unassigned]]
    /\ selectors = [s \in SelectorNames |-> [row \in Rows |-> 0]]
    /\ edges = <<>>
    /\ writes = {}
    /\ incomplete = {}
    /\ num = [slot \in Slots |-> NoNumber]
    /\ status = "running"
    /\ result = "none"
    /\ failures = <<>>
    /\ corrupt = {}

Frame == UNCHANGED <<k, a, b, c, instance, result, failures, corrupt>>

\* let a = field_chip.load_private(layouter.namespace(|| "load a"), self.a)?;
LoadA == status = "running" /\ pc = 0 /\ load_private("a", a) /\ Frame

\* let b = field_chip.load_private(layouter.namespace(|| "load b"), self.b)?;
LoadB == status = "running" /\ pc = 1 /\ load_private("b", b) /\ Frame

\* let c = field_chip.load_private(layouter.namespace(|| "load c"), self.c)?;
LoadC == status = "running" /\ pc = 2 /\ load_private("c", c) /\ Frame

\* add_and_mul: let ab = self.add(layouter.namespace(|| "a + b"), a, b)?;
Add == status = "running" /\ pc = 3 /\ add("ab", num["a"], num["b"]) /\ Frame

\* add_and_mul: self.mul(layouter.namespace(|| "(a + b) * c"), ab, c)
Mul == status = "running" /\ pc = 4 /\ mul("d", num["ab"], num["c"]) /\ Frame

\* field_chip.expose_public(layouter.namespace(|| "expose d"), d)
ExposePublic == status = "running" /\ pc = 5 /\ expose_public(num["d"]) /\ Frame

\* MockProver::run has returned the assignment; prover.verify() checks it.
Verify ==
    /\ status = "running"
    /\ pc = 6
    /\ verify
    /\ UNCHANGED <<k, a, b, c, instance, pc, cursor, advice, selectors, edges,
                   writes, incomplete, num, corrupt>>

\* A test overwrites one cell of the finished, fully witnessed assignment
\* with another field element before verification.
Corrupt ==
    /\ status = "running"
    /\ pc = 6
    /\ incomplete = {}
    /\ Cardinality(corrupt) < MaxCorrupt
    /\ \E column \in AdviceColumns, row \in Rows, v \in F :
          /\ Cell(column, row) \notin corrupt
          /\ v # advice[column][row]
          /\ advice' = [advice EXCEPT ![column][row] = v]
          /\ corrupt' = corrupt \cup {Cell(column, row)}
    /\ UNCHANGED <<k, a, b, c, instance, pc, cursor, selectors, edges, writes,
                   incomplete, num, status, result, failures>>

\* A test takes one assigned cell out of the finished assignment: the grid
\* is as if no region had ever written the cell.
Erase ==
    /\ status = "running"
    /\ pc = 6
    /\ incomplete = {}
    /\ Cardinality(corrupt) < MaxCorrupt
    /\ \E column \in AdviceColumns, row \in Rows :
          /\ Cell(column, row) \notin corrupt
          /\ advice[column][row] # Unassigned
          /\ advice' = [advice EXCEPT ![column][row] = Unassigned]
          /\ writes' = {w \in writes : ~(/\ w.kind = "advice"
                                         /\ w.column = column
                                         /\ w.row = row)}
          /\ corrupt' = corrupt \cup {Cell(column, row)}
    /\ UNCHANGED <<k, a, b, c, instance, pc, cursor, selectors, edges,
                   incomplete, num, status, result, failures>>

Next == LoadA \/ LoadB \/ LoadC \/ Add \/ Mul \/ ExposePublic \/ Verify

\* One honest run of main's prover: synthesize, then verify.
Spec == Init /\ [][Next]_vars

\* main: a: Some(a), b: Some(b), c: Some(c)
AllPresent == a # None /\ b # None /\ c # None

\* main: let d = (a + b) * c;
D == FMul(FAdd(a, b), c)

\* main's two runs: k = 3, all inputs present, and the public input at row 7
\* is d or d + 1.
InitAny ==
    /\ Init
    /\ k = K
    /\ AllPresent
    /\ instance[PubRow] \in {D, FAdd(D, 1)}

NextAny == Next \/ Corrupt \/ Erase

\* Runs on the example's grid (k = 3) in which a test may corrupt or erase
\* cells of the assignment between synthesis and verification.
SpecAny == InitAny /\ [][NextAny]_vars

\* The advice cells that the add, mul and expose-public regions assigned.
InstructionCells ==
    {Cell(w.column, w.row) : w \in {x \in writes : x.kind = "advice" /\ x.region > 3}}

\* A prover that does not follow the instructions: every cell of the add, mul
\* and expose-public regions gets a field element of its choice (the cells
\* of the load regions hold the inputs a, b, c, which range over the field).
Forge ==
    /\ status = "running"
    /\ pc = 6
    /\ incomplete = {}
    /\ corrupt = {}
    /\ LET cells == InstructionCells IN
       \E forged \in [cells -> F] :
          /\ advice' = [column \in AdviceColumns |-> [row \in Rows |->
                           IF Cell(column, row) \in cells
                           THEN forged[Cell(column, row)]
                           ELSE advice[column][row]]]
          /\ corrupt' = {cell \in cells : forged[cell] # CellValue(cell)}
          /\ corrupt' # {}
    /\ UNCHANGED <<k, a, b, c, instance, pc, cursor, selectors, edges, writes,
                   incomplete, num, status, result, failures>>

\* The example's grid, all inputs present, any public input at row 7.
InitWiring ==
    /\ Init
    /\ k = K
    /\ AllPresent

NextWiring == Next \/ Forge

\* Runs on the example's grid in which the prover may assign any values to
\* the instruction regions' cells before verification.
SpecWiring == InitWiring /\ [][NextWiring]_vars

(* ------------------------- notions used by the claims ------------------ *)

FailureSet == {failures[i] : i \in 1 .. Len(failures)}

ConstraintFailure(g, row) ==
    [kind |-> "Constraint", gate_index |-> g, gate_name |-> GateNames[g + 1],
     constraint_index |-> 0, constraint_name |-> "", row |-> row]

PermutationFailure(e) == [kind |-> "Permutation", a |-> e.a, b |-> e.b]

Edge(x, y) == [a |-> x, b |-> y]

(* -------------------------------- C1 ----------------------------------- *)

Enabled(g, row) == selectors[<<"s_pub", "s_add", "s_mul">>[g + 1]][row] = 1

\* instance = advice[1] at `row`.
PubIdentity(row) == advice[1][row] \in F /\ instance[row] = advice[1][row]

\* advice[0][row] + advice[1][row] = advice[0][row + 1].
AddIdentity(row) ==
    /\ (row + 1) \in Rows
    /\ advice[0][row] \in F /\ advice[1][row] \in F /\ advice[0][row + 1] \in F
    /\ (advice[0][row] + advice[1][row]) % FieldOrder = advice[0][row + 1]

\* advice[0][row] * advice[1][row] = advice[0][row + 1].
MulIdentity(row) ==
    /\ (row + 1) \in Rows
    /\ advice[0][row] \in F /\ advice[1][row] \in F /\ advice[0][row + 1] \in F
    /\ (advice[0][row] * advice[1][row]) % FieldOrder = advice[0][row + 1]

Identity(g, row) ==
    CASE g = 0 -> PubIdentity(row)
      [] g = 1 -> AddIdentity(row)
      [] g = 2 -> MulIdentity(row)

\* The endpoints of a copy constraint hold the same field element.
EndpointsEqual(e) ==
    /\ CellValue(e.a) \in F
    /\ CellValue(e.b) \in F
    /\ CellValue(e.a) = CellValue(e.b)

\* C3: the failure list of a verification holds exactly one entry for every
\* (gate, constraint 0, row) whose selector is enabled and whose identity is
\* broken, and one for every recorded copy constraint whose endpoints do not
\* hold equal values, and nothing else; all of them are collected, and the
\* result is Ok iff the list is empty.  (A cell without a value breaks the
\* identity or the equality it takes part in.)
C3_AllFailuresCollected ==
    status = "verified" =>
        /\ FailureSet =
              {ConstraintFailure(gr[1], gr[2]) :
                   gr \in {x \in GateIndices \X Rows :
                              Enabled(x[1], x[2]) /\ ~Identity(x[1], x[2])}}
              \cup
              {PermutationFailure(edges[i]) :
                   i \in {j \in 1 .. Len(edges) : ~EndpointsEqual(edges[j])}}
        /\ Len(failures) = Cardinality(FailureSet)
        /\ (result = "Ok" <=> failures = <<>>)
        /\ result \in {"Ok", "Err"}

\* A verification that reports a gate failure and a permutation failure in
\* one list.
C3_Witness ==
    /\ status = "verified"
    /\ Len(failures) >= 2
    /\ \E i, j \in 1 .. Len(failures) :
          failures[i].kind = "Constraint" /\ failures[j].kind = "Permutation"

(* -------------------------------- C4 ----------------------------------- *)

\* The copy constraints of the example: add (a, lhs), (b, rhs); mul (ab, lhs),
\* (c, rhs); expose public (d, out).
ExampleEdges ==
    {Edge(Cell(0, 0), Cell(0, 3)), Edge(Cell(0, 1), Cell(1, 3)),
     Edge(Cell(0, 4), Cell(0, 5)), Edge(Cell(0, 2), Cell(1, 5)),
     Edge(Cell(0, 6), Cell(1, 7))}

\* No region wrote the cell.
NeverAssigned(cell) ==
    /\ CellValue(cell) = Unassigned
    /\ ~\E w \in writes :
          w.kind = "advice" /\ w.column = cell.column /\ w.row = cell.row

\* C4: a copy constraint of the add, mul or expose-public region with an
\* endpoint that no region assigned is reported as a permutation failure,
\* whatever the other endpoint holds.
C4_UnassignedEndpointFails ==
    status = "verified" =>
        \A e \in ExampleEdges :
            (NeverAssigned(e.a) \/ NeverAssigned(e.b))
                => PermutationFailure(e) \in FailureSet

C4_Witness ==
    /\ status = "verified"
    /\ \E e \in ExampleEdges :
          /\ NeverAssigned(e.b)
          /\ ~NeverAssigned(e.a)
          /\ PermutationFailure(e) \in FailureSet

(* -------------------------------- C5 ----------------------------------- *)

\* The private input that load region i (1, 2, 3) loads.
Input(i) == <<a, b, c>>[i]

C6_RowsBelowGridSize ==
    /\ \A w \in writes : w.row \in Rows
    /\ (k = 3 /\ pc = 6) => {w.row : w \in writes} = 0 .. 7
    /\ k >= 3 => status # "error"
    /\ k < 3 => /\ status \in {"running", "error"}
                /\ pc < 6
                /\ result = "none"
                /\ failures = <<>>
    /\ status = "running" => ENABLED Next

\* On a grid of 4 rows the add region (rows 3 and 4) does not fit.
C6_Witness == k = 2 /\ status = "error" /\ pc = 3 /\ cursor = 3

(* -------------------------------- C7 ----------------------------------- *)

\* C7: in an otherwise satisfied run (public input (a + b) * c), after cells
\* were corrupted every gate failure is at a row whose queries read a
\* corrupted cell, and every permutation failure is of a copy constraint that
\* ends at a corrupted cell.  When the add region's output cell (advice[0],
\* row 4) is the corrupted cell, exactly the add gate at row 3 and the copy
\* constraint into the mul region fail: the mul gate at row 5 and the
\* public-input gate at row 7 stay satisfied.
C7_RegionIsolation ==
    (status = "verified" /\ instance[7] = D /\ corrupt # {}) =>
        /\ \A f \in FailureSet :
              /\ f.kind = "Constraint" =>
                    GateCells(f.gate_index, f.row) \cap corrupt # {}
              /\ f.kind = "Permutation" => (f.a \in corrupt \/ f.b \in corrupt)
        /\ corrupt = {Cell(0, 4)} =>
              FailureSet = {ConstraintFailure(1, 3),
                            PermutationFailure(Edge(Cell(0, 4), Cell(0, 5)))}

C7_Witness ==
    /\ status = "verified" /\ instance[7] = D
    /\ corrupt = {Cell(0, 4)}
    /\ advice[0][4] \in F
    /\ ConstraintFailure(1, 3) \in FailureSet
    /\ ConstraintFailure(2, 5) \notin FailureSet
    /\ ConstraintFailure(0, 7) \notin FailureSet

(* -------------------------------- C8 ----------------------------------- *)

\* C8: where s_add (s_mul) is enabled at row r, the add (mul) gate is
\* satisfied iff advice[0][r] + advice[1][r] = advice[0][r + 1] (the product
\* for mul): `out` is read at row r + 1 of advice[0], lhs and rhs at row r;
\* no other cell decides it.
C8_RotationNextReadsRowPlusOne ==
    status = "verified" =>
        \A r \in Rows :
            /\ selectors["s_add"][r] = 1 =>
                  (ConstraintFailure(1, r) \notin FailureSet <=> AddIdentity(r))
            /\ selectors["s_mul"][r] = 1 =>
                  (ConstraintFailure(2, r) \notin FailureSet <=> MulIdentity(r))

\* The cell two rows below the add selector (advice[0], row 5) was changed
\* and the add gate at row 3 is still satisfied.
C8_Witness ==
    /\ status = "verified"
    /\ corrupt = {Cell(0, 5)}
    /\ selectors["s_add"][3] = 1
    /\ advice[0][5] \in F /\ advice[0][5] # advice[0][4]
    /\ AddIdentity(3)
    /\ ConstraintFailure(1, 3) \notin FailureSet

(* -------------------------------- C9 ----------------------------------- *)

\* C9: a selector is 0 or 1; at a row where a gate's selector is 0 the gate
\* produces no failure, whatever the queried cells hold (unassigned cells
\* included); at a row where it is enabled the gate produces no failure iff
\* its identity holds there.
C9_SelectorGatesConstraint ==
    status = "verified" =>
        \A g \in GateIndices, row \in Rows :
            /\ selectors[<<"s_pub", "s_add", "s_mul">>[g + 1]][row] \in {0, 1}
            /\ ~Enabled(g, row) => ConstraintFailure(g, row) \notin FailureSet
            /\ Enabled(g, row) =>
                  (ConstraintFailure(g, row) \notin FailureSet <=> Identity(g, row))

\* advice[1] at row 4 was given a value that breaks lhs + rhs = out at row 4,
\* where s_add is 0, next to cells that are unassigned at rows where the
\* selectors are 0: nothing fails.
C9_Witness ==
    /\ status = "verified"
    /\ corrupt = {Cell(1, 4)}
    /\ ~Enabled(1, 4) /\ ~AddIdentity(4)
    /\ ~Enabled(2, 0) /\ advice[1][0] = Unassigned
    /\ failures = <<>>

(* -------------------------------- C10 ---------------------------------- *)

Write(region, kind, column, row) ==
    [region |-> region, kind |-> kind, column |-> column, row |-> row]

\* The writes of the six regions at the rows the claim names.
ExpectedWrites(region) ==
    CASE region = 1 -> {Write(1, "advice", 0, 0)}
      [] region = 2 -> {Write(2, "advice", 0, 1)}
      [] region = 3 -> {Write(3, "advice", 0, 2)}
      [] region = 4 -> {Write(4, "s_add", 0, 3), Write(4, "advice", 0, 3),
                        Write(4, "advice", 1, 3), Write(4, "advice", 0, 4)}
      [] region = 5 -> {Write(5, "s_mul", 0, 5), Write(5, "advice", 0, 5),
                        Write(5, "advice", 1, 5), Write(5, "advice", 0, 6)}
      [] region = 6 -> {Write(6, "s_pub", 0, 7), Write(6, "advice", 1, 7)}

\* The row cursor after 0, 1, ..., 6 regions.
CursorAfter == <<0, 1, 2, 3, 5, 7, 8>>

WiredCells ==
    {Cell(0, 0), Cell(0, 1), Cell(0, 2), Cell(0, 3), Cell(1, 3), Cell(0, 4),
     Cell(0, 5), Cell(1, 5), Cell(0, 6), Cell(1, 7)}

\* C11: whatever field elements the advice cells hold, honest or not, when
\* verification of the three gates and the five copy constraints returns an
\* empty failure list the public input at row 7 is (a + b) * c for the values
\* a, b, c of the load cells advice[0] rows 0, 1, 2.
C11_WiringSound ==
    (/\ status = "verified"
     /\ \A cell \in WiredCells : CellValue(cell) \in F
     /\ failures = <<>>)
        => instance[7] =
              (((advice[0][0] + advice[0][1]) % FieldOrder) * advice[0][2])
                 % FieldOrder

\* An accepted assignment with a nonzero public input.
C11_Witness ==
    /\ status = "verified"
    /\ \A cell \in WiredCells : CellValue(cell) \in F
    /\ failures = <<>>
    /\ instance[7] # 0
    /\ Len(edges) = 5

\* A forged assignment was verified: the run did not stop at honest values.
C11_ForgedChecked ==
    /\ status = "verified"
    /\ Cardinality(corrupt) = 7
    /\ failures # <<>>

====
